---- MODULE Spec2Model ----
(***************************************************************************)
(* Model of the self-health-monitoring pipeline of flex-living:            *)
(*   CronJobManager           (backend/src/services/CronJobManager.ts)     *)
(*   HealthMonitoringService  (backend/src/server.ts, lines 560-929)       *)
(*   HealthMonitoringController (backend/src/controllers/                  *)
(*                               PropertyController.ts, lines 323-559)     *)
(* The process is a single JavaScript event loop: every action below is    *)
(* one run-to-completion turn (a timer callback, an HTTP handler, or the   *)
(* continuation that runs when an awaited I/O operation settles).          *)
(***************************************************************************)
EXTENDS Integers, Sequences, FiniteSets, Bags, TLC

\* ---------------------------------------------------------------- bounds
\* number of timer fires explored per job
MaxRuns == 5
\* number of performHealthCheckWithRetry calls that may be in flight at once
MaxInFlight == 1
\* number of executions of the job body that may overlap in SpecOverlap
MaxOverlap == 2
\* largest maxRetries value updateConfig installs in Spec
MaxRetriesBound == 1
\* largest maxRetries value (and script length - 1) explored in SpecRetry
MaxRetriesScript == 3
\* number of logHealthCheck calls explored in SpecLogger
MaxAppends == 4
\* largest logging.maxFileSize, in size units, explored in SpecLogger
MaxFileSize == 2
\* largest logging.maxFiles explored in SpecLogger
MaxFiles == 3

\* ------------------------------------------------------ program constants
\* errorCount ceiling of the recovery sweep
ErrorCeiling == 5
\* updateNextRunTime adds 5 minutes to the current time
FiveMinutes == 5

\* an optional string that is undefined
None == "none"
\* an optional timestamp that is undefined
NoTime == -1
\* the null that performHealthCheckWithRetry returns from lastResult!
NullResult == -1
\* no value returned in this turn: the call is suspended at an await
Pending == -2
TypeErrorMessage == "Cannot read properties of null (reading 'status')"

\* HTTP outcomes of one axios.get: 0 stands for "no response received"
\* (ECONNREFUSED, ETIMEDOUT, ENOTFOUND), the others are response statuses.
Outcomes == {0, 200, 500}

VARIABLES
    registered,     \* jobs.has("health-monitoring")
    job,            \* the CronJobStatus record of the job (job.status)
    taskActive,     \* the node-cron ScheduledTask of the job is started
    config,         \* HealthMonitoringService.config (the fields read here)
    inflight,       \* bag of suspended performHealthCheckWithRetry calls
    clock,          \* Date.now(), advanced by timer fires
    script,         \* SpecRetry: the fixed outcome of each successive probe
    lastCall,       \* history: the last turn taken (op), what it returned
                    \* (ret) and, for startJob and stopJob, whether the turn
                    \* before it was the same command (again) and the timer
                    \* and status that the first turn of this run of equal
                    \* commands found (first)
    started,        \* ghost: executions of the job body begun
    completed,      \* ghost: executions of the job body that ran to their
                    \* end, through the try block or through the catch block
    failStreak,     \* ghost: executions that ended in the catch block since
                    \* the job last completed a check or an operator called
                    \* restartJob
    logger,         \* HealthLogger.config of HealthMonitoringService.logger
    disk,           \* the log directory: the active file and the rotated
                    \* generations .1, .2, ...
    lastLog,        \* history: the last logHealthCheck call: the result it
                    \* was given, the entry it built, whether the append and
                    \* the rotation took place
    logCalls,       \* ghost: logHealthCheck calls made
    rotations,      \* ghost: rotations completed in a row since the log
                    \* directory was last created, cleared or left by a
                    \* failed rotation
    jobConfig,      \* SpecManager: the CronJobConfig that updateJobConfig
                    \* reads and replaces (job.config): the field enabled
    down            \* ghost: CronJobManager.shutdown has been called

vars == <<registered, job, taskActive, config, inflight, clock, script,
          lastCall, started, completed, failStreak, logger, disk, lastLog,
          logCalls, rotations, jobConfig, down>>

loggerVars == <<logger, disk, lastLog, logCalls, rotations>>

managerVars == <<jobConfig, down>>

\* ------------------------------------------------------------- helpers
Min(a, b) == IF a <= b THEN a ELSE b

BagAdd(b, e) == b (+) SetToBag({e})
BagDel(b, e) == b (-) SetToBag({e})

NoJob ==
    [enabled |-> FALSE, status |-> "stopped", runCount |-> 0,
     errorCount |-> 0, lastRun |-> NoTime, nextRun |-> NoTime,
     lastError |-> None]

\* job.config is not followed
NoJobConfig == [enabled |-> FALSE]

\* variant: the job is created in the running state
NewJobStatusRunning(enabled) ==
    [enabled |-> enabled, status |-> "running", runCount |-> 0,
     errorCount |-> 0, lastRun |-> NoTime, nextRun |-> NoTime,
     lastError |-> None]

\* jobStatus literal of createHealthMonitoringJob
NewJobStatus(enabled) ==
    [enabled |-> enabled, status |-> "stopped", runCount |-> 0,
     errorCount |-> 0, lastRun |-> NoTime, nextRun |-> NoTime,
     lastError |-> None]

\* updateNextRunTime: nextRun = now + 5 minutes
updateNextRunTime(j, now) == [j EXCEPT !.nextRun = now + FiveMinutes]

\* result.httpStatusCode >= 200 && result.httpStatusCode < 300
Is2xx(code) == code >= 200 /\ code < 300

\* variant: the loop stops one attempt early
LoopContinuesStrict(attempt, maxRetries) == attempt < maxRetries

\* loop condition of performHealthCheckWithRetry
LoopContinues(attempt, maxRetries) == attempt <= maxRetries

\* "if this is not the last attempt, wait before retrying"
DelayBeforeRetry(attempt, maxRetries) == attempt < maxRetries

\* ------------------------------------------- CronJobManager, synchronous
\* variant: startJob also refuses a job whose timer is already started
startJobRefusingStarted(j, t, now) ==
    IF j.status = "running" \/ t
    THEN [job |-> j, task |-> t, ret |-> FALSE]
    ELSE [job |-> [j EXCEPT !.enabled = TRUE, !.status = "stopped",
                            !.nextRun = now + FiveMinutes],
          task |-> TRUE, ret |-> TRUE]

\* startJob on a registered job: the new status, the timer and the result
startJob(j, t, now) ==
    IF j.status = "running"
    THEN [job |-> j, task |-> t, ret |-> FALSE]
    ELSE [job |-> updateNextRunTime(
                    [j EXCEPT !.enabled = TRUE, !.status = "stopped"], now),
          task |-> TRUE, ret |-> TRUE]

\* variant: stopJob refuses a job whose timer is already stopped
stopJobRefusingStopped(j, t) ==
    IF ~t
    THEN [job |-> j, task |-> t, ret |-> FALSE]
    ELSE [job |-> [j EXCEPT !.enabled = FALSE, !.status = "stopped",
                            !.nextRun = NoTime],
          task |-> FALSE, ret |-> TRUE]

\* variant: stopJob leaves the status as it finds it
stopJobKeepingStatus(j, t) ==
    [job |-> [j EXCEPT !.enabled = FALSE, !.nextRun = NoTime],
     task |-> FALSE, ret |-> TRUE]

\* stopJob on a registered job
stopJob(j, t) ==
    [job |-> [j EXCEPT !.enabled = FALSE, !.status = "stopped",
                       !.nextRun = NoTime],
     task |-> FALSE, ret |-> TRUE]

\* variant: restartJob resets the run counter instead of the error counter
restartJobResettingRuns(j, t, now) ==
    LET s == [j EXCEPT !.enabled = FALSE, !.status = "stopped",
                       !.nextRun = NoTime]
        r == [s EXCEPT !.lastError = None, !.runCount = 0]
    IN  [job |-> [r EXCEPT !.enabled = TRUE, !.nextRun = now + FiveMinutes],
         task |-> TRUE, ret |-> TRUE]

\* restartJob: stopJob, reset the error state, startJob
restartJob(j, t, now) ==
    LET s == stopJob(j, t)
        r == [s.job EXCEPT !.lastError = None, !.errorCount = 0]
    IN  startJob(r, s.task, now)

\* variant: the sweep still restarts a job whose errorCount is at the ceiling
SweepRestartsAtCeiling(j) == j.status = "error" /\ j.errorCount <= ErrorCeiling

\* the sweep restarts a job in error whose errorCount is below the ceiling
SweepRestarts(j) == j.status = "error" /\ j.errorCount < ErrorCeiling

\* CronJobManager.performHealthCheck over the registry (at most one job)
performHealthCheck(reg, j, t, now) ==
    LET r == restartJob(j, t, now)
        attempt == reg /\ SweepRestarts(j)
    IN  [job |-> IF attempt THEN r.job ELSE j,
         task |-> IF attempt THEN r.task ELSE t,
         ret |-> [totalJobs |-> IF reg THEN 1 ELSE 0,
                  healthyJobs |->
                      IF reg /\ j.status = "stopped" /\ j.enabled
                      THEN 1 ELSE 0,
                  errorJobs |-> IF reg /\ j.status = "error" THEN 1 ELSE 0,
                  recoveredJobs |-> IF attempt /\ r.ret THEN 1 ELSE 0]]

\* variant: the run is not counted
ExecBeginNoCount(j) == [j EXCEPT !.status = "running"]

\* executeHealthCheck, before the await: status = running, runCount++
ExecBegin(j) == [j EXCEPT !.status = "running", !.runCount = @ + 1]

\* variant: a completed execution leaves the status as it finds it
ExecSuccessKeepingStatus(j, now) ==
    [j EXCEPT !.lastRun = now, !.lastError = None,
              !.nextRun = now + FiveMinutes]

\* executeHealthCheck, after the await returned a result
ExecSuccess(j, now) ==
    updateNextRunTime(
        [j EXCEPT !.status = "stopped", !.lastRun = now,
                  !.lastError = None], now)

\* variant: the catch block does not count the error
ExecFailureNoCount(j, now, msg) ==
    [j EXCEPT !.status = "error", !.lastError = msg, !.lastRun = now,
              !.nextRun = now + FiveMinutes]

\* executeHealthCheck, catch block
ExecFailure(j, now, msg) ==
    updateNextRunTime(
        [j EXCEPT !.status = "error", !.errorCount = @ + 1,
                  !.lastError = msg, !.lastRun = now], now)

\* ------------------------------------------------------------- history
\* the shapes of what a turn returns: nothing, or a boolean
Void == [void |-> TRUE]
Bool(b) == [value |-> b]

\* the commands whose repetition the history follows
Repeatable == {"startJob", "stopJob"}

\* what the first turn of a run of equal commands found
NoFirst == [task |-> FALSE, status |-> "stopped"]

Hist(op, ret) ==
    lastCall' =
        [op |-> op, ret |-> ret,
         again |-> (op \in Repeatable /\ lastCall.op = op),
         first |-> IF op \notin Repeatable THEN NoFirst
                   ELSE IF lastCall.op = op THEN lastCall.first
                   ELSE [task |-> taskActive, status |-> job.status]]

\* ------------------------------------------- HealthMonitoringService, pure
\* response.data of a received response: the value of its status field
Bodies == {"none", "healthy", "degraded", "unhealthy"}

\* error.code of an axios error without a response
ErrorCodes == {"ECONNREFUSED", "ETIMEDOUT", "ENOTFOUND", "ECONNRESET"}

\* what goes with an outcome code: the error code when no response was
\* received, the body of the response otherwise
Details(o) ==
    IF o = 0 THEN ErrorCodes ELSE IF Is2xx(o) THEN Bodies ELSE {"none"}

\* the plainest of them: the service is down, or the body has no status
PlainDetail(o) == IF o = 0 THEN "ECONNREFUSED" ELSE "none"

\* determineHealthStatus(statusCode, responseData)
determineHealthStatus(statusCode, body) ==
    IF statusCode >= 200 /\ statusCode < 300
    THEN IF body = "degraded" \/ body = "unhealthy"
         THEN "degraded"
         ELSE "healthy"
    ELSE IF statusCode >= 500 THEN "unhealthy"
    ELSE "degraded"

\* handleHealthCheckError for an axios error without a response
handleHealthCheckError(code) ==
    [status |-> "unhealthy", httpStatusCode |-> 0,
     error |-> IF code = "ECONNREFUSED"
               THEN "Connection refused - service may be down"
               ELSE IF code = "ETIMEDOUT" THEN "Request timeout"
               ELSE IF code = "ENOTFOUND" THEN "Host not found"
               ELSE "socket hang up"]

\* the HealthCheckResult that performHealthCheck builds from the outcome of
\* axios.get: the try block for a response, the catch block otherwise
HealthCheckResult(o, detail) ==
    IF o = 0
    THEN handleHealthCheckError(detail)
    ELSE [status |-> determineHealthStatus(o, detail), httpStatusCode |-> o,
          error |-> None]

\* ------------------------------------------------------- HealthLogger, pure
\* a path of the log directory: whether a file is there, and its lines
NoFile == [exists |-> FALSE, lines |-> << >>]

\* rotated generations that the directory can hold
Generations == 1..(MaxFiles + 2)

EmptyDisk == [active |-> NoFile, rotated |-> [g \in Generations |-> NoFile]]

\* file-system faults of one logger call: none, fs.appendFile fails,
\* fs.statSync fails, or the fs call of step i of rotateLogs / clearLogs
\* throws (step 0 is the active file, step i > 0 generation i)
NoFault == -1
AppendFault == -2
StatFault == -3
Faults == {NoFault, AppendFault, StatFault} \cup (0..MaxFiles)

\* the HealthMonitoringLog that logHealthCheck builds
LogEntry(id, result, retryCount) ==
    [id |-> id, retryCount |-> retryCount, code |-> result.httpStatusCode,
     status |-> result.status]

\* bytes of a formatted line, in size units: a line that carries an error
\* string is longer
LineSize(e) == IF e.code = 0 THEN 2 ELSE 1

RECURSIVE SizeOf(_)
SizeOf(lines) ==
    IF lines = << >> THEN 0 ELSE LineSize(Head(lines)) + SizeOf(Tail(lines))

\* fs.statSync(file).size
FileSize(f) == SizeOf(f.lines)

\* fs.appendFile(currentLogFile, logLine + "\n"): creates the file if needed
writeLogEntry(d, e) ==
    [d EXCEPT !.active = [exists |-> TRUE, lines |-> Append(@.lines, e)]]

\* one step of the loop of rotateLogs: generation i is deleted when
\* i = maxFiles - 1 and renamed to i + 1 otherwise
ShiftStep(d, i, maxFiles) ==
    IF d.rotated[i].exists
    THEN IF i = maxFiles - 1
         THEN [d EXCEPT !.rotated[i] = NoFile]
         ELSE [d EXCEPT !.rotated[i + 1] = d.rotated[i],
                        !.rotated[i] = NoFile]
    ELSE d

\* the loop of rotateLogs from index i down to 1; the fs call of step fault
\* throws
RECURSIVE ShiftFrom(_, _, _, _)
ShiftFrom(d, i, maxFiles, fault) ==
    IF i < 1 THEN [disk |-> d, threw |-> FALSE]
    ELSE IF i = fault /\ d.rotated[i].exists THEN [disk |-> d, threw |-> TRUE]
    ELSE ShiftFrom(ShiftStep(d, i, maxFiles), i - 1, maxFiles, fault)

\* rotateLogs: shift the generations, then move the active file to .1
rotateLogs(d, maxFiles, fault) ==
    LET s == ShiftFrom(d, maxFiles - 1, maxFiles, fault)
    IN  IF s.threw THEN s
        ELSE IF ~s.disk.active.exists THEN s
        ELSE IF fault = 0 THEN [disk |-> s.disk, threw |-> TRUE]
        ELSE [disk |-> [s.disk EXCEPT !.rotated[1] = s.disk.active,
                                      !.active = NoFile],
              threw |-> FALSE]

\* variant: rotation waits until the size exceeds the maximum
RotationDueStrict(d, maxFileSize) ==
    d.active.exists /\ FileSize(d.active) > maxFileSize

\* stats.size >= config.maxFileSize
RotationDue(d, maxFileSize) ==
    d.active.exists /\ FileSize(d.active) >= maxFileSize

\* rotateLogsIfNeeded: every error is caught; tells what happened
rotateLogsIfNeeded(d, cfg, fault) ==
    IF fault = StatFault \/ ~RotationDue(d, cfg.maxFileSize)
    THEN [disk |-> d, rotation |-> "none"]
    ELSE LET r == rotateLogs(d, cfg.maxFiles, fault)
         IN  [disk |-> r.disk,
              rotation |-> IF r.threw THEN "failed" ELSE "done"]

\* variant: logHealthCheck lets the error of a failed append out
logHealthCheckRethrowing(d, cfg, e, fault) ==
    IF fault = AppendFault
    THEN [disk |-> d, appended |-> FALSE, rotation |-> "none",
          threw |-> TRUE]
    ELSE LET r == rotateLogsIfNeeded(writeLogEntry(d, e), cfg, fault)
         IN  [disk |-> r.disk, appended |-> TRUE, rotation |-> r.rotation,
              threw |-> FALSE]

\* logHealthCheck after fs.appendFile settled: writeLogEntry, then
\* rotateLogsIfNeeded, inside a try block that swallows every error
logHealthCheck(d, cfg, e, fault) ==
    IF fault = AppendFault
    THEN [disk |-> d, appended |-> FALSE, rotation |-> "none",
          threw |-> FALSE]
    ELSE LET r == rotateLogsIfNeeded(writeLogEntry(d, e), cfg, fault)
         IN  [disk |-> r.disk, appended |-> TRUE, rotation |-> r.rotation,
              threw |-> FALSE]

\* Array.prototype.slice(start) on a sequence
Slice(lines, start) ==
    LET n == Len(lines)
        from == IF start < 0
                THEN (IF n + start < 0 THEN 0 ELSE n + start)
                ELSE Min(start, n)
    IN  SubSeq(lines, from + 1, n)

Reverse(q) == [i \in 1..Len(q) |-> q[Len(q) + 1 - i]]

\* variant: the lines are returned in file order
getRecentLogsOldestFirst(d, cfg, limit, fault) ==
    IF fault # NoFault THEN << >>
    ELSE IF ~d.active.exists THEN << >>
    ELSE IF cfg.format = "json" THEN Slice(d.active.lines, 0 - limit)
    ELSE << >>

\* HealthLogger.getRecentLogs(limit): lines.slice(-limit).reverse() for the
\* json format, [] for the text format and on every error
getRecentLogs(d, cfg, limit, fault) ==
    IF fault # NoFault THEN << >>
    ELSE IF ~d.active.exists THEN << >>
    ELSE IF cfg.format = "json"
         THEN Reverse(Slice(d.active.lines, 0 - limit))
    ELSE << >>

\* HealthLogger.getLogStats: the size of the active file and the number of
\* log files among the active one and generations 1..maxFiles
getLogStats(d, cfg, fault) ==
    IF fault # NoFault
    THEN [currentFileSize |-> 0, totalLogFiles |-> 0]
    ELSE [currentFileSize |-> FileSize(d.active),
          totalLogFiles |->
              (IF d.active.exists THEN 1 ELSE 0) +
              Cardinality({g \in 1..cfg.maxFiles : d.rotated[g].exists})]

\* the loop of clearLogs from generation i up to maxFiles
RECURSIVE ClearFrom(_, _, _, _)
ClearFrom(d, i, maxFiles, fault) ==
    IF i > maxFiles THEN [disk |-> d, threw |-> FALSE]
    ELSE IF i = fault /\ d.rotated[i].exists THEN [disk |-> d, threw |-> TRUE]
    ELSE ClearFrom([d EXCEPT !.rotated[i] = NoFile], i + 1, maxFiles, fault)

\* variant: clearLogs swallows the error
clearLogsQuietly(d, cfg, fault) ==
    IF fault = 0 /\ d.active.exists THEN [disk |-> d, threw |-> FALSE]
    ELSE [disk |-> ClearFrom([d EXCEPT !.active = NoFile], 1, cfg.maxFiles,
                             fault).disk,
          threw |-> FALSE]

\* HealthLogger.clearLogs: unlink the active file and generations
\* 1..maxFiles; an error is reported and thrown again
clearLogs(d, cfg, fault) ==
    IF fault = 0 /\ d.active.exists THEN [disk |-> d, threw |-> TRUE]
    ELSE ClearFrom([d EXCEPT !.active = NoFile], 1, cfg.maxFiles, fault)

\* HealthLogger constructor: ensureLogDirectory reports a failure of
\* fs.mkdirSync and throws "Cannot create log directory"
ensureLogDirectory(fault) == [threw |-> fault # NoFault]

\* ------------------------------------------- HealthMonitoringController
\* req.query.limit: absent, or the decimal digits of an integer
NoQuery == -1000
Queries == {NoQuery, -1, 0, 1, 2, 3, 1000, 1001}

\* parseNumber(value) || 100
LimitOf(q) == IF q = NoQuery \/ q = 0 THEN 100 ELSE q

\* limit < 1 || limit > 1000
LimitRejected(limit) == limit < 1 \/ limit > 1000

\* no logHealthCheck call yet
NoLog ==
    [result |-> [status |-> None, httpStatusCode |-> 0, error |-> None],
     detail |-> None,
     entry |-> [id |-> 0, retryCount |-> 0, code |-> 0, status |-> None],
     appended |-> FALSE, rotation |-> "none", threw |-> FALSE]

\* --------------------------------------------------------------- Init
InitCommon ==
    /\ registered = FALSE
    /\ job = NoJob
    /\ taskActive = FALSE
    /\ inflight = EmptyBag
    /\ clock = 0
    /\ lastCall = [op |-> "init", ret |-> Void, again |-> FALSE,
                   first |-> NoFirst]
    /\ started = 0
    /\ completed = 0
    /\ failStreak = 0
    /\ disk = EmptyDisk
    /\ lastLog = NoLog
    /\ logCalls = 0
    /\ rotations = 0
    /\ jobConfig = NoJobConfig
    /\ down = FALSE

\* the logging section of a configuration that validateConfig accepts
LoggingConfigs(enabled) ==
    [enabled : enabled, maxFileSize : 1..MaxFileSize, maxFiles : 1..MaxFiles,
     format : {"json", "text"}]

\* the LoggerConfig that the constructor of HealthMonitoringService and
\* updateConfig hand to new HealthLogger
LoggerConfig(l) ==
    [maxFileSize |-> l.maxFileSize, maxFiles |-> l.maxFiles,
     format |-> l.format]

\* Server.initializeHealthMonitoring validated the configuration; logging
\* is switched off
Init ==
    /\ InitCommon
    /\ config \in [maxRetries : 0..MaxRetriesBound,
                    logging : {[enabled |-> FALSE,
                                maxFileSize |-> MaxFileSize,
                                maxFiles |-> MaxFiles, format |-> "json"]}]
    /\ logger = LoggerConfig(config.logging)
    /\ script = << >>

\* ------------------------------------------------------------ actions
\* createHealthMonitoringJob(config): validate, register, start if enabled
createHealthMonitoringJob(valid, enabled) ==
    /\ ~registered
    /\ IF valid
       THEN LET j == NewJobStatus(enabled)
                s == startJob(j, FALSE, clock)
            IN  /\ registered' = TRUE
                /\ job' = IF enabled THEN s.job ELSE j
                /\ taskActive' = IF enabled THEN s.task ELSE FALSE
                /\ Hist("createHealthMonitoringJob",
                        [jobId |-> "health-monitoring", enabled |-> enabled])
       ELSE /\ UNCHANGED <<registered, job, taskActive>>
            /\ Hist("createHealthMonitoringJob", [threw |-> "Invalid cron schedule"])
    /\ UNCHANGED <<config, inflight, clock, script, started, completed,
                   failStreak>>
    /\ UNCHANGED loggerVars
    /\ UNCHANGED managerVars

StartJob ==
    /\ registered
    /\ LET s == startJob(job, taskActive, clock)
       IN  /\ job' = s.job
           /\ taskActive' = s.task
           /\ Hist("startJob", Bool(s.ret))
    /\ UNCHANGED <<registered, config, inflight, clock, script, started,
                   completed, failStreak>>
    /\ UNCHANGED loggerVars
    /\ UNCHANGED managerVars

StopJob ==
    /\ registered
    /\ LET s == stopJob(job, taskActive)
       IN  /\ job' = s.job
           /\ taskActive' = s.task
           /\ Hist("stopJob", Bool(s.ret))
    /\ UNCHANGED <<registered, config, inflight, clock, script, started,
                   completed, failStreak>>
    /\ UNCHANGED loggerVars
    /\ UNCHANGED managerVars

RestartJob ==
    /\ registered
    /\ LET s == restartJob(job, taskActive, clock)
       IN  /\ job' = s.job
           /\ taskActive' = s.task
           /\ Hist("restartJob", Bool(s.ret))
    /\ failStreak' = 0
    /\ UNCHANGED <<registered, config, inflight, clock, script, started,
                   completed>>
    /\ UNCHANGED loggerVars
    /\ UNCHANGED managerVars

\* one firing of the recovery interval of enableAutoRecovery
RecoverySweep ==
    /\ LET s == performHealthCheck(registered, job, taskActive, clock)
       IN  /\ job' = s.job
           /\ taskActive' = s.task
           /\ Hist("performHealthCheck", s.ret)
    /\ UNCHANGED <<registered, config, inflight, clock, script, started,
                   completed, failStreak>>
    /\ UNCHANGED loggerVars
    /\ UNCHANGED managerVars

\* ------------------------------- HealthMonitoringService, asynchronous
\* the outcome the endpoint gives to the probe with index attempt
ProbeOutcomes(attempt) ==
    IF script = << >> THEN Outcomes ELSE {script[attempt + 1]}

\* a call of performHealthCheckWithRetry suspended at an await
Call(kind, pc, attempt, lastResult, probes) ==
    [kind |-> kind, pc |-> pc, attempt |-> attempt,
     lastResult |-> lastResult, probes |-> probes]

\* the value a turn hands back: kind of the call, the value
\* performHealthCheckWithRetry returned in this turn (Pending while it is
\* suspended) and the number of probes the call has made
Returned(kind, result, probes) ==
    [kind |-> kind, result |-> result, probes |-> probes]

\* variant: executeHealthCheck treats a non-2xx final result as a failure
DeliverFlaggingNon2xx(kind, j, result, now) ==
    IF kind = "job"
    THEN IF result = NullResult \/ ~Is2xx(result)
         THEN ExecFailure(j, now, TypeErrorMessage)
         ELSE ExecSuccess(j, now)
    ELSE j

\* variant: a manual trigger is recorded on the job like a scheduled run
DeliverRecordingTrigger(kind, j, result, now) ==
    IF result = NullResult
    THEN ExecFailure(j, now, TypeErrorMessage)
    ELSE ExecSuccess(j, now)

\* what the caller of performHealthCheckWithRetry does with the value it
\* gets: executeHealthCheck (kind "job") reads result.status, which throws
\* on null and lands in its catch block; triggerHealthCheck (kind "manual")
\* sends the value back and touches no job.  j is the status record the
\* continuation sees, now the time it reads.
Deliver(kind, j, result, now) ==
    IF kind = "job"
    THEN IF result = NullResult
         THEN ExecFailure(j, now, TypeErrorMessage)
         ELSE ExecSuccess(j, now)
    ELSE j

\* the ghost count of completed job bodies after a call of this kind
\* handed its value to its caller
Ended(kind) == IF kind = "job" THEN completed + 1 ELSE completed

\* the ghost count of failures in a row after a call of this kind handed
\* this value to its caller
Streak(kind, result) ==
    IF kind = "job"
    THEN IF result = NullResult THEN failStreak + 1 ELSE 0
    ELSE failStreak

\* performHealthCheckWithRetry from its entry to its first await (or to its
\* return when the loop body is never entered), with room for cap suspended
\* calls
EnterUpTo(cap, kind, op, j) ==
    IF LoopContinues(0, config.maxRetries)
    THEN /\ BagCardinality(inflight) < cap
         /\ inflight' = BagAdd(inflight, Call(kind, "probe", 0, NullResult, 1))
         /\ job' = j
         /\ UNCHANGED <<completed, failStreak>>
         /\ Hist(op, Returned(kind, Pending, 1))
    ELSE /\ job' = Deliver(kind, j, NullResult, clock')
         /\ completed' = Ended(kind)
         /\ failStreak' = Streak(kind, NullResult)
         /\ UNCHANGED inflight
         /\ Hist(op, Returned(kind, NullResult, 0))

Enter(kind, op, j) == EnterUpTo(MaxInFlight, kind, op, j)

\* the timer of the job fires: executeHealthCheck("health-monitoring");
\* node-cron calls the callback on every tick of the schedule, whether or
\* not the promise of an earlier call has settled
FireUpTo(cap) ==
    /\ registered
    /\ taskActive
    /\ job.runCount < MaxRuns
    /\ clock' = clock + 1
    /\ started' = started + 1
    /\ EnterUpTo(cap, "job", "fire", ExecBegin(job))
    /\ UNCHANGED <<registered, taskActive, config, script>>
    /\ UNCHANGED loggerVars
    /\ UNCHANGED managerVars

Fire == FireUpTo(MaxInFlight)

FireOverlapping == FireUpTo(MaxOverlap)

\* HealthMonitoringController.triggerHealthCheck
TriggerHealthCheck ==
    /\ clock' = clock
    /\ Enter("manual", "triggerHealthCheck", job)
    /\ UNCHANGED <<registered, taskActive, config, script, started>>
    /\ UNCHANGED loggerVars
    /\ UNCHANGED managerVars

\* the retry loop on the result of performHealthCheck(c.attempt), whose
\* httpStatusCode is o: return it, or leave the loop and return lastResult,
\* or wait before the next attempt
Decide(c, o, op) ==
    IF Is2xx(o) \/ ~DelayBeforeRetry(c.attempt, config.maxRetries)
    THEN /\ inflight' = BagDel(inflight, c)
         /\ job' = Deliver(c.kind, job, o, clock')
         /\ completed' = Ended(c.kind)
         /\ failStreak' = Streak(c.kind, o)
         /\ Hist(op, Returned(c.kind, o, c.probes))
    ELSE /\ inflight' = BagAdd(BagDel(inflight, c),
                               Call(c.kind, "delay", c.attempt, o, c.probes))
         /\ UNCHANGED <<job, completed, failStreak>>
         /\ Hist(op, Returned(c.kind, Pending, c.probes))

\* axios.get of an in-flight call settles with outcome o; performHealthCheck
\* builds the result and, if logging is enabled, awaits logHealthCheck;
\* otherwise it returns and the retry loop decides
ProbeDone(c, o) ==
    /\ c.pc = "probe"
    /\ clock' = clock
    /\ IF config.logging.enabled
       THEN /\ inflight' = BagAdd(BagDel(inflight, c),
                                  Call(c.kind, "log", c.attempt, o, c.probes))
            /\ UNCHANGED <<job, completed, failStreak>>
            /\ Hist("probeDone", Returned(c.kind, Pending, c.probes))
       ELSE Decide(c, o, "probeDone")
    /\ UNCHANGED <<registered, taskActive, config, script, started>>
    /\ UNCHANGED loggerVars
    /\ UNCHANGED managerVars

\* variant: the entry carries the number of probes made, not the index of
\* the attempt
LogArgsCountingFromOne(c, detail) ==
    [result |-> HealthCheckResult(c.lastResult, detail),
     retryCount |-> c.attempt + 1]

\* the arguments of logHealthCheck in performHealthCheck(c.attempt)
LogArgs(c, detail) ==
    [result |-> HealthCheckResult(c.lastResult, detail),
     retryCount |-> c.attempt]

\* the ghost count of rotations in a row after a logHealthCheck call
RotationsAfter(rotation) ==
    IF rotation = "done" THEN rotations + 1
    ELSE IF rotation = "failed" THEN 0
    ELSE rotations

\* the result in the catch block of the retry loop, which an error that
\* left performHealthCheck would reach
UnexpectedErrorResult ==
    [status |-> "unhealthy", httpStatusCode |-> 0,
     error |-> "Unknown error during health check"]

\* fs.appendFile of the logHealthCheck call of an in-flight probe settles:
\* logHealthCheck checks the rotation and returns, performHealthCheck
\* returns its result and the retry loop decides.  detail is what came with
\* the outcome of the probe, fault the file-system fault of this call.  An
\* error that left logHealthCheck would end in a catch block that makes
\* the result an unhealthy one with httpStatusCode 0.
LogDone(c, detail, fault) ==
    /\ c.pc = "log"
    /\ clock' = clock
    /\ LET a == LogArgs(c, detail)
           e == LogEntry(logCalls + 1, a.result, a.retryCount)
           r == logHealthCheck(disk, logger, e, fault)
       IN  /\ disk' = r.disk
           /\ lastLog' = [result |-> IF r.threw THEN UnexpectedErrorResult
                                     ELSE a.result,
                          detail |-> detail,
                          entry |-> e, appended |-> r.appended,
                          rotation |-> r.rotation, threw |-> r.threw]
           /\ rotations' = RotationsAfter(r.rotation)
           /\ Decide(c, IF r.threw THEN 0 ELSE c.lastResult, "logDone")
    /\ logCalls' = logCalls + 1
    /\ UNCHANGED <<registered, taskActive, config, script, started, logger>>
    /\ UNCHANGED managerVars

\* the retry delay of an in-flight call elapses: attempt++, loop condition
DelayDone(c) ==
    /\ c.pc = "delay"
    /\ clock' = clock
    /\ IF LoopContinues(c.attempt + 1, config.maxRetries)
       THEN /\ inflight' = BagAdd(BagDel(inflight, c),
                                  Call(c.kind, "probe", c.attempt + 1,
                                       c.lastResult, c.probes + 1))
            /\ UNCHANGED <<job, completed, failStreak>>
            /\ Hist("delayDone", Returned(c.kind, Pending, c.probes + 1))
       ELSE /\ inflight' = BagDel(inflight, c)
            /\ job' = Deliver(c.kind, job, c.lastResult, clock')
            /\ completed' = Ended(c.kind)
            /\ failStreak' = Streak(c.kind, c.lastResult)
            /\ Hist("delayDone", Returned(c.kind, c.lastResult, c.probes))
    /\ UNCHANGED <<registered, taskActive, config, script, started>>
    /\ UNCHANGED loggerVars
    /\ UNCHANGED managerVars

\* HealthMonitoringService.updateConfig({cronJob: {maxRetries: m, ...}})
UpdateConfig(m) ==
    /\ config' = [config EXCEPT !.maxRetries = m]
    /\ Hist("updateConfig", Void)
    /\ UNCHANGED <<registered, job, taskActive, inflight, clock, script,
                   started, completed, failStreak>>
    /\ UNCHANGED loggerVars
    /\ UNCHANGED managerVars

Next ==
    \/ \E valid \in BOOLEAN, enabled \in BOOLEAN :
           createHealthMonitoringJob(valid, enabled)
    \/ StartJob
    \/ StopJob
    \/ RestartJob
    \/ RecoverySweep
    \/ Fire
    \/ TriggerHealthCheck
    \/ \E c \in BagToSet(inflight) :
           \E o \in ProbeOutcomes(c.attempt) : ProbeDone(c, o)
    \/ \E c \in BagToSet(inflight) : DelayDone(c)
    \/ \E m \in -1..MaxRetriesBound : UpdateConfig(m)

Spec == Init /\ [][Next]_vars

\* ------------------------------------------------- the log and its writers
\* a manual trigger, while no other run is in flight and the log has room
\* for the entries of its probes
TriggerLogged ==
    /\ inflight = EmptyBag
    /\ logCalls + config.maxRetries + 1 <= MaxAppends
    /\ TriggerHealthCheck

\* HealthMonitoringService.getRecentLogs(limit)
GetRecentLogs(limit, fault) ==
    /\ Hist("getRecentLogs",
            [logs |-> getRecentLogs(disk, logger, limit, fault),
             limit |-> limit, fault |-> fault])
    /\ UNCHANGED <<registered, job, taskActive, config, inflight, clock,
                   script, started, completed, failStreak>>
    /\ UNCHANGED loggerVars
    /\ UNCHANGED managerVars

\* HealthMonitoringController.getLogs with req.query.limit = q
GetLogs(q, fault) ==
    /\ LET limit == LimitOf(q)
       IN  IF LimitRejected(limit)
           THEN Hist("getLogs", [http |-> 400, query |-> q, logs |-> << >>,
                                 read |-> FALSE])
           ELSE Hist("getLogs",
                     [http |-> 200, query |-> q,
                      logs |-> getRecentLogs(disk, logger, limit, fault),
                      read |-> TRUE])
    /\ UNCHANGED <<registered, job, taskActive, config, inflight, clock,
                   script, started, completed, failStreak>>
    /\ UNCHANGED loggerVars
    /\ UNCHANGED managerVars

\* HealthMonitoringService.getLogStatistics()
GetLogStats(fault) ==
    /\ Hist("getLogStats", [stats |-> getLogStats(disk, logger, fault),
                            threw |-> FALSE])
    /\ UNCHANGED <<registered, job, taskActive, config, inflight, clock,
                   script, started, completed, failStreak>>
    /\ UNCHANGED loggerVars
    /\ UNCHANGED managerVars

\* HealthMonitoringService.clearLogs()
ClearLogs(fault) ==
    /\ LET r == clearLogs(disk, logger, fault)
       IN  /\ disk' = r.disk
           /\ Hist("clearLogs", [threw |-> r.threw, fault |-> fault])
    /\ rotations' = 0
    /\ UNCHANGED <<registered, job, taskActive, config, inflight, clock,
                   script, started, completed, failStreak, logger, lastLog,
                   logCalls>>
    /\ UNCHANGED managerVars

\* HealthMonitoringService.updateConfig({logging: l}): the configuration is
\* replaced, then a HealthLogger is constructed.  With newDir the file
\* path of l lies in a directory that does not exist yet, which the
\* constructor creates; if that fails it throws and the old logger stays.
UpdateLoggingConfig(l, newDir, fault) ==
    /\ config' = [config EXCEPT !.logging = l]
    /\ LET k == ensureLogDirectory(IF newDir THEN fault ELSE NoFault)
       IN  /\ logger' = IF k.threw THEN logger ELSE LoggerConfig(l)
           /\ disk' = IF newDir /\ ~k.threw THEN EmptyDisk ELSE disk
           /\ rotations' = IF newDir /\ ~k.threw THEN 0 ELSE rotations
           /\ Hist("updateLogging", [threw |-> k.threw, newDir |-> newDir,
                                     fault |-> fault])
    /\ UNCHANGED <<registered, job, taskActive, inflight, clock, script,
                   started, completed, failStreak, lastLog, logCalls>>
    /\ UNCHANGED managerVars

\* the constructor of HealthMonitoringService built the logger from a
\* configuration that validateConfig accepts; the format is json
InitLogger ==
    /\ InitCommon
    /\ config \in [maxRetries : 0..MaxRetriesBound,
                    logging : {l \in LoggingConfigs(BOOLEAN) :
                                  l.format = "json"}]
    /\ logger = LoggerConfig(config.logging)
    /\ script = << >>

\* probes, their log entries and the rotation of the log
NextLogger ==
    \/ TriggerLogged
    \/ \E c \in BagToSet(inflight) :
           \E o \in Outcomes : ProbeDone(c, o)
    \/ \E c \in BagToSet(inflight) :
           \E fault \in {NoFault, AppendFault} :
               LogDone(c, PlainDetail(c.lastResult), fault)
    \/ \E c \in BagToSet(inflight) : DelayDone(c)
    \/ ClearLogs(NoFault)

SpecLogger == InitLogger /\ [][NextLogger]_vars

\* ------------------------------------------------- one probe and its verdict
\* outcomes of axios.get: 404 is a response that is neither 2xx nor 5xx
ProbedOutcomes == Outcomes \cup {404}

\* logging is enabled and the log keeps one generation
InitProbe ==
    /\ InitCommon
    /\ config \in [maxRetries : 0..MaxRetriesBound,
                    logging : {l \in LoggingConfigs({TRUE}) :
                                  /\ l.format = "json"
                                  /\ l.maxFileSize = MaxFileSize
                                  /\ l.maxFiles = 1}]
    /\ logger = LoggerConfig(config.logging)
    /\ script = << >>

\* probes with every outcome of the HTTP call and of the log append
NextProbe ==
    \/ TriggerLogged
    \/ \E c \in BagToSet(inflight) :
           \E o \in ProbedOutcomes : ProbeDone(c, o)
    \/ \E c \in BagToSet(inflight) :
           \E detail \in Details(c.lastResult),
              fault \in {NoFault, AppendFault, StatFault, 0} :
               LogDone(c, detail, fault)
    \/ \E c \in BagToSet(inflight) : DelayDone(c)

SpecProbe == InitProbe /\ [][NextProbe]_vars

\* ------------------------------------------------- the log and its readers
\* req.query.limit values and limits of getRecentLogs explored
MaxLimit == 3

\* logging is enabled, every probe is a single attempt and the active file
\* holds MaxAppends - 1 plain lines before it is rotated
InitReader ==
    /\ InitCommon
    /\ config \in [maxRetries : {0},
                    logging : [enabled : {TRUE}, maxFileSize : {MaxAppends},
                               maxFiles : {2}, format : {"json", "text"}]]
    /\ logger = LoggerConfig(config.logging)
    /\ script = << >>

\* every operation of the logger, with the file-system faults it can meet
NextReader ==
    \/ TriggerLogged
    \/ \E c \in BagToSet(inflight) :
           \E o \in {0, 200} : ProbeDone(c, o)
    \/ \E c \in BagToSet(inflight) :
           \E fault \in {NoFault, AppendFault, StatFault, 0, 1} :
               LogDone(c, PlainDetail(c.lastResult), fault)
    \/ \E limit \in 1..MaxLimit, fault \in {NoFault, StatFault} :
           GetRecentLogs(limit, fault)
    \/ \E q \in Queries : GetLogs(q, NoFault)
    \/ \E fault \in {NoFault, StatFault} : GetLogStats(fault)
    \/ \E fault \in {NoFault, 0, 1} : ClearLogs(fault)
    \/ \E newDir \in BOOLEAN, fault \in {NoFault, StatFault} :
           UpdateLoggingConfig(config.logging, newDir, fault)

SpecReader == InitReader /\ [][NextReader]_vars

\* ------------------------------------- the log while it is reconfigured
\* logging is enabled, every probe is a single attempt and every line
\* fills the active file, so that every append is followed by a rotation
InitClear ==
    /\ InitCommon
    /\ config \in [maxRetries : {0},
                    logging : {l \in LoggingConfigs({TRUE}) :
                                  /\ l.format = "json"
                                  /\ l.maxFileSize = 1}]
    /\ logger = LoggerConfig(config.logging)
    /\ script = << >>

\* appends, rotations, updateConfig({logging: {..., maxFiles: n}}) and
\* clearLogs
NextClear ==
    \/ TriggerLogged
    \/ \E c \in BagToSet(inflight) : ProbeDone(c, 200)
    \/ \E c \in BagToSet(inflight) :
           LogDone(c, PlainDetail(c.lastResult), NoFault)
    \/ \E n \in 1..MaxFiles :
           UpdateLoggingConfig([config.logging EXCEPT !.maxFiles = n],
                               FALSE, NoFault)
    \/ GetLogStats(NoFault)
    \/ ClearLogs(NoFault)

SpecClear == InitClear /\ [][NextClear]_vars

\* ------------------------------------------------- the configuration
\* values of a configuration that validateConfig accepts
Endpoint == "/api/health"
Schedule == "*/5 * * * *"
FilePath == "logs/health-monitoring.log"

\* validateConfig found no fault
Accepted == "accepted"

\* HealthMonitoringService.validateConfig(c): the message of the first rule
\* that c breaks, which is the error thrown.  The fields schedule,
\* maxRetries, retryDelay and timeout are the cronJob section of c.
validateConfig(c) ==
    IF c.healthCheckEndpoint = "" THEN "Health check endpoint is required"
    ELSE IF c.schedule = "" THEN "Cron schedule is required"
    ELSE IF c.maxRetries < 0 THEN "Max retries must be non-negative"
    ELSE IF c.retryDelay < 0 THEN "Retry delay must be non-negative"
    ELSE IF c.timeout <= 0 THEN "Timeout must be positive"
    ELSE IF c.logging.enabled /\ c.logging.filePath = ""
         THEN "Log file path is required when logging is enabled"
    ELSE Accepted

\* the sections of a HealthMonitoringConfig that the model follows
Sections == {"healthCheckEndpoint", "cronJob", "logging"}

\* cronJob sections that a caller of updateConfig may send
CronJobSections ==
    [schedule : {"", Schedule}, maxRetries : {-1, 0}, retryDelay : {-1, 0},
     timeout : {0, 1}]

\* logging sections that a caller of updateConfig may send
LoggingSections ==
    [enabled : BOOLEAN, filePath : {"", FilePath}, maxFileSize : {MaxAppends},
     maxFiles : {2}, format : {"json"}]

\* the cronJob section of the configuration c
CronJobOf(c) ==
    [schedule |-> c.schedule, maxRetries |-> c.maxRetries,
     retryDelay |-> c.retryDelay, timeout |-> c.timeout]

\* a Partial<HealthMonitoringConfig>: the sections it carries (given) and
\* their values
Partial(given, endpoint, cronJob, logging) ==
    [given |-> given, healthCheckEndpoint |-> endpoint, cronJob |-> cronJob,
     logging |-> logging]

\* { ...this.config, ...newConfig }: a section that the partial carries
\* replaces the section of the configuration as a whole
Merge(c, p) ==
    LET cj == "cronJob" \in p.given
    IN  [healthCheckEndpoint |->
             IF "healthCheckEndpoint" \in p.given
             THEN p.healthCheckEndpoint ELSE c.healthCheckEndpoint,
         schedule |-> IF cj THEN p.cronJob.schedule ELSE c.schedule,
         maxRetries |-> IF cj THEN p.cronJob.maxRetries ELSE c.maxRetries,
         retryDelay |-> IF cj THEN p.cronJob.retryDelay ELSE c.retryDelay,
         timeout |-> IF cj THEN p.cronJob.timeout ELSE c.timeout,
         logging |-> IF "logging" \in p.given THEN p.logging ELSE c.logging]

\* HealthMonitoringService.updateConfig(newConfig): the configuration is
\* merged and stored, and a HealthLogger is built when newConfig carries a
\* logging section; the directory of every file path sent here exists
UpdateConfigWith(p) ==
    /\ config' = Merge(config, p)
    /\ LET k == ensureLogDirectory(NoFault)
       IN  /\ logger' = IF "logging" \in p.given /\ ~k.threw
                         THEN LoggerConfig(config'.logging) ELSE logger
           /\ Hist("updateConfig", [threw |-> k.threw, partial |-> p])
    /\ UNCHANGED <<registered, job, taskActive, inflight, clock, script,
                   started, completed, failStreak, disk, lastLog, logCalls,
                   rotations>>
    /\ UNCHANGED managerVars

\* what getConfig() returns: { ...this.config }, a new object whose fields
\* hold the values of the fields of this.config, so that its sections that
\* are objects are the live ones
getConfig(c) == [copy |-> c, shared |-> {"cronJob", "logging"}]

\* HealthMonitoringService.getConfig()
GetConfig ==
    /\ Hist("getConfig", [copy |-> getConfig(config).copy])
    /\ UNCHANGED <<registered, job, taskActive, config, inflight, clock,
                   script, started, completed, failStreak>>
    /\ UNCHANGED loggerVars
    /\ UNCHANGED managerVars

\* the paths of a configuration that a caller assigns to
Paths == {"healthCheckEndpoint", "cronJob.maxRetries", "logging.enabled"}

SectionOf(path) ==
    IF path = "cronJob.maxRetries" THEN "cronJob"
    ELSE IF path = "logging.enabled" THEN "logging"
    ELSE "healthCheckEndpoint"

\* the configuration c after the assignment c.path = value
Assign(c, path, endpoint, maxRetries, enabled) ==
    IF path = "cronJob.maxRetries" THEN [c EXCEPT !.maxRetries = maxRetries]
    ELSE IF path = "logging.enabled"
         THEN [c EXCEPT !.logging.enabled = enabled]
    ELSE [c EXCEPT !.healthCheckEndpoint = endpoint]

\* a caller runs  const c = service.getConfig(); c.path = value  with the
\* value for the path among endpoint, maxRetries and enabled: the
\* assignment reaches this.config when it goes through a shared section
MutateCopy(path, endpoint, maxRetries, enabled) ==
    /\ LET g == getConfig(config)
       IN  /\ config' = IF SectionOf(path) \in g.shared
                         THEN Assign(config, path, endpoint, maxRetries,
                                     enabled)
                         ELSE config
           /\ Hist("mutateCopy",
                   [path |-> path,
                    copy |-> Assign(g.copy, path, endpoint, maxRetries,
                                    enabled)])
    /\ UNCHANGED <<registered, job, taskActive, inflight, clock, script,
                   started, completed, failStreak>>
    /\ UNCHANGED loggerVars
    /\ UNCHANGED managerVars

\* Server.initializeHealthMonitoring validated the configuration and the
\* constructor of HealthMonitoringService built the logger from it
InitConfig ==
    /\ InitCommon
    /\ config \in [healthCheckEndpoint : {Endpoint}, schedule : {Schedule},
                    maxRetries : {0}, retryDelay : {0}, timeout : {1},
                    logging : {l \in LoggingSections :
                                  l.enabled /\ l.filePath = FilePath}]
    /\ logger = LoggerConfig(config.logging)
    /\ script = << >>

\* partials with one section, and with the cronJob and logging sections
PartialsSent ==
    {Partial({"healthCheckEndpoint"}, e, CronJobOf(config), config.logging) :
        e \in {"", Endpoint}}
    \cup {Partial({"cronJob"}, Endpoint, cj, config.logging) :
              cj \in CronJobSections}
    \cup {Partial({"logging"}, Endpoint, CronJobOf(config), l) :
              l \in LoggingSections}
    \cup {Partial({"cronJob", "logging"}, Endpoint, cj, l) :
              cj \in {x \in CronJobSections : x.schedule = Schedule},
              l \in LoggingSections}

\* the configuration is read, updated and mutated through a copy, and
\* probes run under it
NextConfig ==
    \/ TriggerLogged
    \/ \E c \in BagToSet(inflight) : ProbeDone(c, 200)
    \/ \E c \in BagToSet(inflight) :
           LogDone(c, PlainDetail(c.lastResult), NoFault)
    \/ \E p \in PartialsSent : UpdateConfigWith(p)
    \/ GetConfig
    \/ MutateCopy("healthCheckEndpoint", "", 0, TRUE)
    \/ MutateCopy("cronJob.maxRetries", Endpoint, -1, TRUE)
    \/ \E b \in BOOLEAN : MutateCopy("logging.enabled", Endpoint, 0, b)

SpecConfig == InitConfig /\ [][NextConfig]_vars

\* ------------------------------------------------- retry function alone
\* a fixed configuration and a fixed endpoint behaviour; only manual
\* triggers (plain performHealthCheckWithRetry calls) run
InitRetry ==
    /\ InitCommon
    /\ config \in [maxRetries : 0..MaxRetriesScript,
                    logging : {[enabled |-> FALSE,
                                maxFileSize |-> MaxFileSize,
                                maxFiles |-> MaxFiles, format |-> "json"]}]
    /\ logger = LoggerConfig(config.logging)
    /\ script \in [1..(MaxRetriesScript + 1) -> Outcomes]

NextRetry ==
    \/ TriggerHealthCheck
    \/ \E c \in BagToSet(inflight) :
           \E o \in ProbeOutcomes(c.attempt) : ProbeDone(c, o)
    \/ \E c \in BagToSet(inflight) : DelayDone(c)

SpecRetry == InitRetry /\ [][NextRetry]_vars

\* --------------------------------------------- overlapping executions
\* the job with its timer, its commands and executions that may overlap
NextOverlap ==
    \/ \E enabled \in BOOLEAN : createHealthMonitoringJob(TRUE, enabled)
    \/ StartJob
    \/ StopJob
    \/ RestartJob
    \/ FireOverlapping
    \/ \E c \in BagToSet(inflight) :
           \E o \in ProbeOutcomes(c.attempt) : ProbeDone(c, o)
    \/ \E c \in BagToSet(inflight) : DelayDone(c)

SpecOverlap == Init /\ [][NextOverlap]_vars

\* ------------------------------------------- the log and two writers
\* logging is enabled, every probe is a single attempt and the second line
\* fills the active file
InitWriters ==
    /\ InitCommon
    /\ config \in [maxRetries : {0},
                    logging : {l \in LoggingConfigs({TRUE}) :
                                  /\ l.format = "json"
                                  /\ l.maxFileSize = 2
                                  /\ l.maxFiles = 2}]
    /\ logger = LoggerConfig(config.logging)
    /\ script = << >>

\* the log has room for the entry of one more probe
LogHasRoom == logCalls + BagCardinality(inflight) < MaxAppends

\* the timer of the job fires, whatever else is in flight
FireLogged ==
    /\ LogHasRoom
    /\ FireOverlapping

\* HealthMonitoringController.triggerHealthCheck, whatever else is in
\* flight
TriggerConcurrent ==
    /\ LogHasRoom
    /\ clock' = clock
    /\ EnterUpTo(MaxOverlap, "manual", "triggerHealthCheck", job)
    /\ UNCHANGED <<registered, taskActive, config, script, started>>
    /\ UNCHANGED loggerVars
    /\ UNCHANGED managerVars

\* scheduled runs and manual triggers that write to the same log
NextWriters ==
    \/ createHealthMonitoringJob(TRUE, TRUE)
    \/ FireLogged
    \/ TriggerConcurrent
    \/ \E c \in BagToSet(inflight) : ProbeDone(c, 200)
    \/ \E c \in BagToSet(inflight) :
           LogDone(c, PlainDetail(c.lastResult), NoFault)

SpecWriters == InitWriters /\ [][NextWriters]_vars

\* ------------------------------------- CronJobManager: update and shutdown
\* number of timer fires explored in SpecManager
MaxFires == 2

\* the fields of a Partial<CronJobConfig> that updateJobConfig reads
JobConfigFields == {"enabled", "schedule"}

\* a Partial<CronJobConfig>: the fields it carries (given), the value of
\* enabled and whether cron.validate accepts the schedule
JobConfigPartials ==
    [given : SUBSET JobConfigFields, enabled : BOOLEAN, valid : BOOLEAN]

\* updateJobConfig on a registered job with status j, timer t and
\* configuration cfg: stop the job if it is enabled, merge the partial,
\* copy config.enabled to the status, validate a new schedule and replace
\* the task by the one cron.schedule returns, which is started, then start
\* the job if it was enabled and still is; an invalid schedule throws into
\* the catch block, which records the message and returns false
updateJobConfig(j, t, cfg, p, now) ==
    LET wasRunning == j.enabled
        s == IF wasRunning THEN stopJob(j, t)
             ELSE [job |-> j, task |-> t, ret |-> TRUE]
        c == [enabled |-> IF "enabled" \in p.given THEN p.enabled
                          ELSE cfg.enabled]
        u == [s.job EXCEPT !.enabled = c.enabled]
    IN  IF "schedule" \in p.given /\ ~p.valid
        THEN [job |-> [u EXCEPT !.lastError = "Invalid cron schedule"],
              task |-> s.task, config |-> c, ret |-> FALSE]
        ELSE LET created == IF "schedule" \in p.given THEN TRUE ELSE s.task
                 r == IF wasRunning /\ c.enabled
                      THEN startJob(u, created, now)
                      ELSE [job |-> u, task |-> created, ret |-> TRUE]
             IN  [job |-> r.job, task |-> r.task, config |-> c,
                  ret |-> TRUE]

UpdateJobConfig(p) ==
    /\ registered
    /\ LET s == updateJobConfig(job, taskActive, jobConfig, p, clock)
       IN  /\ job' = s.job
           /\ taskActive' = s.task
           /\ jobConfig' = s.config
           /\ Hist("updateJobConfig", Bool(s.ret))
    /\ UNCHANGED <<registered, config, inflight, clock, script, started,
                   completed, failStreak, down>>
    /\ UNCHANGED loggerVars

\* variant: shutdown stops the timers and keeps the registry
shutdownKeepingJobs(reg, t) == [registered |-> reg, task |-> FALSE]

\* CronJobManager.shutdown: task.stop() and task.destroy() for every job,
\* then jobs.clear()
shutdown(reg, t) == [registered |-> FALSE, task |-> FALSE]

\* SIGTERM or SIGINT: Server.shutdown calls CronJobManager.shutdown; the
\* status record stays with the executions in flight, which hold it
Shutdown ==
    /\ LET s == shutdown(registered, taskActive)
       IN  /\ registered' = s.registered
           /\ taskActive' = s.task
    /\ down' = TRUE
    /\ Hist("shutdown", Void)
    /\ UNCHANGED <<job, config, inflight, clock, script, started, completed,
                   failStreak, jobConfig>>
    /\ UNCHANGED loggerVars

\* a callback of the timer runs after shutdown (it was due when the timer
\* was stopped): executeHealthCheck returns at once when jobs.get finds no
\* job, and runs the body otherwise
LateFire ==
    /\ down
    /\ registered => job.runCount < MaxFires
    /\ IF registered
       THEN /\ clock' = clock + 1
            /\ started' = started + 1
            /\ Enter("job", "fire", ExecBegin(job))
       ELSE /\ UNCHANGED <<job, inflight, clock, started, completed,
                           failStreak>>
            /\ Hist("lateFire", Void)
    /\ UNCHANGED <<registered, taskActive, config, script>>
    /\ UNCHANGED loggerVars
    /\ UNCHANGED managerVars

\* the state after Server.initializeHealthMonitoring: the configuration is
\* validated, logging is switched off, and the job is registered by
\* createHealthMonitoringJob with enabled true
InitManager ==
    /\ registered = TRUE
    /\ job = startJob(NewJobStatus(TRUE), FALSE, 0).job
    /\ taskActive = startJob(NewJobStatus(TRUE), FALSE, 0).task
    /\ jobConfig = [enabled |-> TRUE]
    /\ down = FALSE
    /\ inflight = EmptyBag
    /\ clock = 0
    /\ lastCall = [op |-> "createHealthMonitoringJob",
                   ret |-> [jobId |-> "health-monitoring", enabled |-> TRUE],
                   again |-> FALSE, first |-> NoFirst]
    /\ started = 0
    /\ completed = 0
    /\ failStreak = 0
    /\ disk = EmptyDisk
    /\ lastLog = NoLog
    /\ logCalls = 0
    /\ rotations = 0
    /\ config \in [maxRetries : 0..MaxRetriesBound,
                    logging : {[enabled |-> FALSE,
                                maxFileSize |-> MaxFileSize,
                                maxFiles |-> MaxFiles, format |-> "json"]}]
    /\ logger = LoggerConfig(config.logging)
    /\ script = << >>

\* the timer of the job fires, MaxFires times at most
FireFew ==
    /\ job.runCount < MaxFires
    /\ Fire

\* the commands of the manager, the timer, the sweep and the shutdown
NextManager ==
    \/ StartJob
    \/ StopJob
    \/ RestartJob
    \/ \E p \in JobConfigPartials : UpdateJobConfig(p)
    \/ RecoverySweep
    \/ FireFew
    \/ \E c \in BagToSet(inflight) :
           \E o \in ProbeOutcomes(c.attempt) : ProbeDone(c, o)
    \/ \E c \in BagToSet(inflight) : DelayDone(c)
    \/ \E m \in -1..MaxRetriesBound : UpdateConfig(m)
    \/ Shutdown
    \/ LateFire

SpecManager == InitManager /\ [][NextManager]_vars

\* =================================================================
\* Properties
\* =================================================================
\* the turn recorded in lc belongs to a call of performHealthCheckWithRetry
CallTurn(lc) ==
    lc.op \in {"fire", "triggerHealthCheck", "probeDone", "logDone",
               "delayDone"}

\* the turn recorded in lc ended an execution of the job body
JobBodyEnded(lc) ==
    CallTurn(lc) /\ lc.ret.kind = "job" /\ lc.ret.result # Pending

\* executions of the job body suspended at an await
JobCallsInFlight ==
    BagCardinality([c \in {x \in BagToSet(inflight) : x.kind = "job"}
                       |-> inflight[c]])

\* 1-based index of the first probe that the script answers with a 2xx
\* status; Len(script) + 1 when there is none
RECURSIVE FirstSuccessFrom(_)
FirstSuccessFrom(i) ==
    IF i > Len(script) THEN i
    ELSE IF script[i] >= 200 /\ script[i] < 300 THEN i
    ELSE FirstSuccessFrom(i + 1)

ExpectedAttempts == Min(FirstSuccessFrom(1), config.maxRetries + 1)

\* the file at generation g of the log directory, 0 being the active file
FileAt(d, g) == IF g = 0 THEN d.active ELSE d.rotated[g]

\* the places of the log directory that hold a line: generation and index
Places(d) ==
    {pl \in (0..(MaxFiles + 2)) \X (1..MaxAppends) :
        pl[2] <= Len(FileAt(d, pl[1]).lines)}

LineAt(d, pl) == FileAt(d, pl[1]).lines[pl[2]]

\* the lines that the log directory holds
LineSet(d) == {LineAt(d, pl) : pl \in Places(d)}

\* how many times the directory holds the entry e
Occurrences(d, e) == Cardinality({pl \in Places(d) : LineAt(d, pl) = e})

\* the place of the line appended last: the end of the active file, or of
\* generation .1 when the append was followed by a rotation
NewestPlace(d) ==
    IF d.active.exists /\ d.active.lines # << >>
    THEN <<0, Len(d.active.lines)>>
    ELSE <<1, Len(d.rotated[1].lines)>>

\* C1: with a fixed configuration (maxRetries >= 0) and a fixed sequence of
\* probe outcomes, a finished performHealthCheckWithRetry call has made
\* exactly min(k, maxRetries + 1) probes, k the index of the first 2xx
\* outcome, and returns the result of the last probe it made.
C1_RetryAttempts ==
    (CallTurn(lastCall) /\ lastCall.ret.result # Pending)
        => /\ lastCall.ret.probes = ExpectedAttempts
           /\ lastCall.ret.result = script[ExpectedAttempts]

\* C1 witness: maxRetries = 2 and an endpoint that never answers 2xx: the
\* call returned after 3 probes with status 500.
C1_Witness ==
    /\ CallTurn(lastCall)
    /\ config.maxRetries = 2
    /\ lastCall.ret.probes = 3
    /\ lastCall.ret.result = 500
    /\ \A i \in 1..3 : script[i] = 500

\* C1, early success: maxRetries = 3, the first probe fails and the second
\* answers 200: the call returned the 200 after 2 probes.
C1_WitnessEarlySuccess ==
    /\ CallTurn(lastCall)
    /\ config.maxRetries = 3
    /\ script[1] = 500 /\ script[2] = 200
    /\ lastCall.ret.probes = 2
    /\ lastCall.ret.result = 200

\* C2 as claimed: in every reachable state runCount equals the number of
\* executions of the job body that have completed.
C2_RunCountIsCompleted == job.runCount = completed

\* C2 as amended: runCount equals the number of executions begun, that is
\* the completed ones plus those in flight.
C2_RunCountIsStarted ==
    /\ job.runCount = started
    /\ job.runCount = completed + JobCallsInFlight

\* C2 witness: one execution has completed, a second one is in flight, and
\* the job was restarted meanwhile.
C2_Witness ==
    /\ lastCall.op = "restartJob"
    /\ completed = 1
    /\ JobCallsInFlight = 1
    /\ job.runCount = 2

\* C3: in every reachable state errorCount <= runCount.
C3_ErrorCountLeRunCount == job.errorCount <= job.runCount

\* C3 witness: every execution so far failed, so the two counters are
\* equal, and a recovery sweep has just looked at the job.
C3_Witness ==
    /\ lastCall.op = "performHealthCheck"
    /\ job.errorCount >= 2
    /\ job.errorCount = job.runCount

\* C4: an execution to which performHealthCheckWithRetry returns a result,
\* whatever its status code, ends with status stopped, lastRun set to the
\* current time, lastError cleared and errorCount unchanged; and the status
\* becomes error only in a turn in which an exception escaped the job body.
C4_CompletedCheckIsSuccess ==
    [][/\ (JobBodyEnded(lastCall') /\ lastCall'.ret.result # NullResult)
            => /\ job'.status = "stopped"
               /\ job'.lastRun = clock'
               /\ job'.lastError = None
               /\ job'.errorCount = job.errorCount
       /\ (job'.status = "error" /\ job.status # "error")
            => (JobBodyEnded(lastCall') /\ lastCall'.ret.result = NullResult)
      ]_vars

\* C4 witness: an execution that had failed before now completed with a
\* non-2xx (or no) response and the job is stopped with its errorCount kept.
C4_Witness ==
    /\ JobBodyEnded(lastCall)
    /\ lastCall.ret.result \in {0, 500}
    /\ job.status = "stopped"
    /\ job.lastError = None
    /\ job.errorCount >= 1

\* C5: when an exception escapes the job body, the execution ends in the
\* catch block: errorCount is incremented by exactly one, status is error,
\* lastError holds the message, and the turn ends with the registry and
\* the timer as they were.
C5_ExceptionIsCaught ==
    [][(JobBodyEnded(lastCall') /\ lastCall'.ret.result = NullResult)
          => /\ job'.errorCount = job.errorCount + 1
             /\ job'.status = "error"
             /\ job'.lastError = TypeErrorMessage
             /\ job'.runCount = job.runCount + 1
             /\ registered' = registered
             /\ taskActive' = taskActive
      ]_vars

\* C5 witness: the second failing execution in a row has been recorded.
C5_Witness ==
    /\ JobBodyEnded(lastCall)
    /\ lastCall.ret.result = NullResult
    /\ job.status = "error"
    /\ job.errorCount = 2

\* C6 as claimed: of two stopJob calls in a row on a started job the first
\* returns true, the second false, and enabled is false after each.
C6_StopTwiceTrueThenFalse ==
    (lastCall.op = "stopJob" /\ lastCall.first.task)
        => /\ ~job.enabled
           /\ lastCall.ret.value = ~lastCall.again

\* C6 as amended: every stopJob call of a run of stopJob calls on a started
\* job returns true and leaves enabled false and the timer stopped; the
\* calls after the first change nothing.
C6_StopIsIdempotent ==
    [][(lastCall'.op = "stopJob" /\ lastCall'.first.task)
          => /\ lastCall'.ret.value = TRUE
             /\ ~job'.enabled
             /\ ~taskActive'
             /\ lastCall'.again => (job' = job /\ taskActive' = taskActive)
      ]_vars

\* C6 witness: stopJob has been called twice in a row on a job whose timer
\* was started.
C6_Witness ==
    /\ lastCall.op = "stopJob"
    /\ lastCall.again
    /\ lastCall.first.task
    /\ ~job.enabled

\* C7 as claimed: startJob on a job whose timer is started or whose body is
\* executing returns false and changes neither the status record nor the
\* timer.
C7_StartOnStartedIsNoOp ==
    [][(lastCall'.op = "startJob" /\ (taskActive \/ JobCallsInFlight > 0))
          => /\ lastCall'.ret.value = FALSE
             /\ job' = job
             /\ taskActive' = taskActive
      ]_vars

\* C7 as amended: startJob returns false and changes nothing exactly when
\* the status is running; otherwise it returns true and leaves the timer
\* started, enabled true and status stopped, so that a second startJob in a
\* row on a stopped job returns true again and changes at most nextRun.
C7_StartRefusedOnlyWhileRunning ==
    [][lastCall'.op = "startJob"
          => IF job.status = "running"
             THEN /\ lastCall'.ret.value = FALSE
                  /\ job' = job
                  /\ taskActive' = taskActive
             ELSE /\ lastCall'.ret.value = TRUE
                  /\ taskActive'
                  /\ job'.enabled
                  /\ job'.status = "stopped"
                  /\ lastCall'.again =>
                         /\ taskActive' = taskActive
                         /\ [job' EXCEPT !.nextRun = job.nextRun] = job
      ]_vars

\* C7 witness: startJob has been called twice in a row on a job that was
\* stopped, and the second call returned true.
C7_Witness ==
    /\ lastCall.op = "startJob"
    /\ lastCall.again
    /\ ~lastCall.first.task
    /\ lastCall.first.status = "stopped"
    /\ lastCall.ret.value = TRUE

\* C8 as claimed: a manual trigger leaves enabled flag and timer unchanged
\* and increases runCount by one like a scheduled fire.
C8_TriggerCountsARun ==
    [][lastCall'.op = "triggerHealthCheck"
          => /\ job'.enabled = job.enabled
             /\ taskActive' = taskActive
             /\ job'.runCount = job.runCount + 1
      ]_vars

\* C8 as amended: no turn of a manual trigger, from its start to the turn
\* that sends the result back, changes the job's status record (enabled,
\* runCount, errorCount included) or its timer.
C8_TriggerLeavesJobAlone ==
    [][(CallTurn(lastCall') /\ lastCall'.ret.kind = "manual")
          => /\ job' = job
             /\ taskActive' = taskActive
             /\ registered' = registered
      ]_vars

\* C8 witness: a manual trigger has returned a probe result while the job
\* was registered, started and had runs of its own.
C8_Witness ==
    /\ CallTurn(lastCall)
    /\ lastCall.ret.kind = "manual"
    /\ lastCall.ret.result \in Outcomes
    /\ registered
    /\ taskActive
    /\ job.runCount >= 1

\* C9: one recovery sweep leaves a job in error with errorCount >= 5
\* untouched, restarts a job in error with errorCount < 5 (errorCount 0,
\* lastError cleared, status stopped, counted in recoveredJobs) and restarts
\* no job that is not in error.
C9_SweepRestartsBelowCeiling ==
    [][(lastCall'.op = "performHealthCheck" /\ registered)
          => IF job.status = "error" /\ job.errorCount < 5
             THEN /\ job'.errorCount = 0
                  /\ job'.lastError = None
                  /\ job'.status = "stopped"
                  /\ job'.enabled
                  /\ taskActive'
                  /\ lastCall'.ret.recoveredJobs = 1
             ELSE /\ job' = job
                  /\ taskActive' = taskActive
                  /\ lastCall'.ret.recoveredJobs = 0
      ]_vars

\* C9 witness: a sweep has found the job in error with errorCount at the
\* ceiling and left it so.
C9_Witness ==
    /\ lastCall.op = "performHealthCheck"
    /\ job.status = "error"
    /\ job.errorCount >= 5
    /\ lastCall.ret.errorJobs = 1
    /\ lastCall.ret.recoveredJobs = 0

\* C9, below the ceiling: a sweep has restarted a job that had failed twice.
C9_WitnessRestarted ==
    /\ lastCall.op = "performHealthCheck"
    /\ lastCall.ret.recoveredJobs = 1
    /\ failStreak = 2
    /\ job.errorCount = 0
    /\ job.status = "stopped"

\* C10: the ceiling keeps the sweep from restarting a job for ever: once
\* the job has failed 5 times in a row, with no completed check and no
\* operator restart in between, a recovery sweep restarts it no more.
C10_CeilingEndsRestarts ==
    (lastCall.op = "performHealthCheck" /\ failStreak >= 5)
        => lastCall.ret.recoveredJobs = 0

\* C11: in every reachable state at most one execution of the job's body
\* is in flight.
C11_NoOverlap == JobCallsInFlight <= 1

\* C12 as claimed: the status is running exactly while an execution of the
\* job body is in flight.
C12_RunningIffInFlight == (job.status = "running") <=> (JobCallsInFlight > 0)

\* C12 as amended: the status becomes running only when an execution
\* starts, is running only while an execution is in flight, and stops being
\* running either when an execution ends or when stopJob or restartJob is
\* called, which set it to stopped while the execution is still in flight.
C12_RunningOnlyInFlight ==
    [][/\ (job'.status = "running") => (JobCallsInFlight' > 0)
       /\ (job'.status = "running" /\ job.status # "running")
            => lastCall'.op = "fire"
       /\ (job.status = "running" /\ job'.status # "running")
            => \/ JobBodyEnded(lastCall')
               \/ /\ lastCall'.op \in {"stopJob", "restartJob"}
                  /\ job'.status = "stopped"
                  /\ JobCallsInFlight' = JobCallsInFlight
       /\ (JobCallsInFlight' = 0) => job'.status \in {"stopped", "error"}
      ]_vars

\* C12 witness: stopJob was called during an execution: the status is
\* stopped while the execution is still in flight.
C12_Witness ==
    /\ lastCall.op = "stopJob"
    /\ job.status = "stopped"
    /\ JobCallsInFlight = 1

\* C13: every attempt of a run calls logHealthCheck exactly once when
\* logging is enabled: if the append succeeds the entry, with retryCount
\* equal to the index of the attempt, is on disk exactly once, as the line
\* appended last, and nothing else is new on disk; if it fails the disk is
\* as before.  No other turn adds a line.  When a run ends, the entries of
\* its attempts that are on disk carry retryCount 0, 1, ... in order, and
\* with logging disabled the run has called the logger not at all.
C13_OneRecordPerAttempt ==
    [][/\ (lastCall'.op = "logDone")
            => /\ config.logging.enabled
               /\ logCalls' = logCalls + 1
               /\ lastLog'.entry.retryCount = lastCall'.ret.probes - 1
               /\ lastLog'.entry.id = logCalls'
               /\ IF lastLog'.appended
                  THEN /\ Occurrences(disk', lastLog'.entry) = 1
                       /\ LineAt(disk', NewestPlace(disk')) = lastLog'.entry
                       /\ LineSet(disk') \subseteq
                              (LineSet(disk) \cup {lastLog'.entry})
                  ELSE disk' = disk
       /\ (lastCall'.op # "logDone")
            => /\ LineSet(disk') \subseteq LineSet(disk)
               /\ logCalls' = logCalls
       /\ (CallTurn(lastCall') /\ lastCall'.ret.result # Pending)
            => IF config.logging.enabled
               THEN /\ lastCall'.op = "logDone"
                    /\ logCalls' >= lastCall'.ret.probes
                    /\ \A k \in 0..(lastCall'.ret.probes - 1) :
                           \A e \in LineSet(disk') :
                               (e.id = logCalls' - k)
                                   => e.retryCount =
                                          lastCall'.ret.probes - 1 - k
               ELSE /\ logCalls' = 0
                    /\ disk' = EmptyDisk
      ]_vars

\* C13 witness: total outage with maxRetries = 1: the run made 2 attempts
\* and ended, and the entries with retryCount 0 and 1 are on disk.
C13_Witness ==
    /\ lastCall.op = "logDone"
    /\ lastCall.ret.result = 0
    /\ lastCall.ret.probes = 2
    /\ config.maxRetries = 1
    /\ \E e0, e1 \in LineSet(disk) :
           /\ e0.retryCount = 0 /\ e1.retryCount = 1
           /\ e1.id = logCalls /\ e0.id = logCalls - 1
           /\ e0.status = "unhealthy" /\ e1.code = 0

\* C13, logging disabled: a run of 2 attempts ended and the log is empty.
C13_WitnessDisabled ==
    /\ CallTurn(lastCall)
    /\ lastCall.ret.result # Pending
    /\ lastCall.ret.probes = 2
    /\ ~config.logging.enabled
    /\ disk = EmptyDisk

\* the outcome of axios.get that the probe awaiting its log entry got
SettledOutcome ==
    (CHOOSE c \in BagToSet(inflight) : c.pc = "log").lastResult

\* C14: performHealthCheck never raises: whatever the outcome of the HTTP
\* call and whether the append of the log entry succeeds or fails, no error
\* leaves it and it returns a result with a verdict and the status code of
\* the response; when no response was received the result is unhealthy
\* with httpStatusCode 0 and an error string.
C14_ProbeNeverRaises ==
    [][(lastCall'.op = "logDone")
          => /\ ~lastLog'.threw
             /\ lastLog'.result.status \in {"healthy", "degraded", "unhealthy"}
             /\ lastLog'.result.httpStatusCode = SettledOutcome
             /\ lastCall'.ret.result \in {Pending, SettledOutcome}
             /\ (SettledOutcome = 0)
                    => /\ lastLog'.result.status = "unhealthy"
                       /\ lastLog'.result.error # None
             /\ (SettledOutcome # 0) => lastLog'.result.error = None
      ]_vars

\* C14 witness: the connection was refused and the append of the log
\* entry failed: the probe returned an unhealthy result all the same.
C14_Witness ==
    /\ lastCall.op = "logDone"
    /\ lastLog.detail = "ECONNREFUSED"
    /\ ~lastLog.appended
    /\ lastLog.result.status = "unhealthy"
    /\ lastLog.result.httpStatusCode = 0
    /\ lastCall.ret.result = 0

\* C14, a response and a failed append: the probe returned the response.
C14_WitnessResponse ==
    /\ lastCall.op = "logDone"
    /\ ~lastLog.appended
    /\ lastLog.result.httpStatusCode = 500
    /\ lastCall.ret.result = 500

\* C16: the verdict of a probe is this function of its outcome: no response
\* or HTTP 5xx gives unhealthy; HTTP 2xx gives what the status field of the
\* body says when that is degraded or unhealthy, and healthy otherwise;
\* every other HTTP status gives degraded.
C16_VerdictHonoursBody ==
    (lastCall.op = "logDone")
        => lastLog.result.status =
               IF lastLog.result.httpStatusCode = 0 THEN "unhealthy"
               ELSE IF lastLog.result.httpStatusCode >= 500 THEN "unhealthy"
               ELSE IF Is2xx(lastLog.result.httpStatusCode)
                    THEN (IF lastLog.detail \in {"degraded", "unhealthy"}
                          THEN lastLog.detail ELSE "healthy")
               ELSE "degraded"

C15_WitnessConstructor ==
    /\ lastCall.op = "updateLogging"
    /\ lastCall.ret.threw

\* C15, the append: a rotation failed and logHealthCheck returned normally.
C15_WitnessRotation ==
    /\ lastCall.op = "logDone"
    /\ lastLog.rotation = "failed"
    /\ ~lastLog.threw
    /\ lastCall.ret.result # Pending

\* the rotated generations that exist
RotatedFiles(d) == {g \in Generations : d.rotated[g].exists}

C18_KeepsMaxFilesGenerations ==
    /\ Cardinality(RotatedFiles(disk)) <= logger.maxFiles
    /\ (rotations >= logger.maxFiles)
           => RotatedFiles(disk) = 1..logger.maxFiles

\* C19: with the json format and n lines in the active file,
\* getRecentLogs(limit) with limit >= 1 returns min(limit, n) records: the
\* ones appended last, the newest first.
C19_RecentNewestFirst ==
    (/\ lastCall.op = "getRecentLogs"
     /\ lastCall.ret.fault = NoFault
     /\ logger.format = "json")
        => LET lines == disk.active.lines
               n == Len(lines)
               k == Min(lastCall.ret.limit, n)
           IN  /\ Len(lastCall.ret.logs) = k
               /\ Len(lastCall.ret.logs) <= lastCall.ret.limit
               /\ \A i \in 1..k : lastCall.ret.logs[i] = lines[n + 1 - i]

\* C19 witness: the active file holds 3 records and getRecentLogs(2) has
\* returned the third and the second, in this order.
C19_Witness ==
    /\ lastCall.op = "getRecentLogs"
    /\ lastCall.ret.limit = 2
    /\ logger.format = "json"
    /\ Len(disk.active.lines) = 3
    /\ Len(lastCall.ret.logs) = 2
    /\ lastCall.ret.logs[1] = disk.active.lines[3]
    /\ lastCall.ret.logs[2] = disk.active.lines[2]
    /\ lastCall.ret.logs[1].id > lastCall.ret.logs[2].id

\* C20: the controller's getLogs answers a limit outside 1..1000, 0 and
\* negative values included, with a validation error without reading the
\* log, and a limit inside the range with at most limit records.
C20_LimitValidated ==
    (lastCall.op = "getLogs" /\ lastCall.ret.query # NoQuery)
        => IF lastCall.ret.query \in 1..1000
           THEN /\ lastCall.ret.http = 200
                /\ Len(lastCall.ret.logs) <= lastCall.ret.query
           ELSE /\ lastCall.ret.http = 400
                /\ ~lastCall.ret.read
                /\ lastCall.ret.logs = << >>

\* C21: after clearLogs returned normally, neither the active log file nor
\* any rotated generation exists on disk and getLogStats counts 0 files,
\* also after updateConfig has lowered maxFiles.
C21_ClearRemovesAll ==
    (lastCall.op = "clearLogs" /\ ~lastCall.ret.threw)
        => /\ disk = EmptyDisk
           /\ getLogStats(disk, logger, NoFault).totalLogFiles = 0

\* C22: updateConfig rejects malformed input: when the configuration that
\* would result breaks a rule of validateConfig, the call fails and the
\* live configuration and the logger are left as they were.
C22_UpdateValidates ==
    [][(/\ lastCall'.op = "updateConfig"
        /\ validateConfig(Merge(config, lastCall'.ret.partial)) # Accepted)
          => /\ lastCall'.ret.threw
             /\ config' = config
             /\ logger' = logger
      ]_vars

\* C23: the configuration is copy-on-read: no assignment that a caller
\* makes to the object that getConfig returned, at the top level or inside
\* its cronJob and logging sections, changes the configuration that the
\* service keeps, uses for later probes and returns from a later getConfig.
C23_CopyOnRead ==
    [][(lastCall'.op = "mutateCopy") => (config' = config)]_vars

C24_WitnessDisabled ==
    /\ lastCall.op = "createHealthMonitoringJob"
    /\ registered
    /\ ~lastCall.ret.enabled
    /\ ~taskActive

\* C24, malformed expression: the call threw and no job is registered.
C24_WitnessMalformed ==
    /\ lastCall.op = "createHealthMonitoringJob"
    /\ "threw" \in DOMAIN lastCall.ret
    /\ ~registered
    /\ ~taskActive

\* C25: shutdown leaves every timer stopped and the registry empty, and
\* from then on no job body starts: the registry stays empty, the timer
\* stays stopped and no execution is begun, and a timer callback that runs
\* after shutdown makes no probe and changes no state.
C25_ShutdownStopsEverything ==
    [][/\ (lastCall'.op = "shutdown")
            => (down' /\ ~registered' /\ ~taskActive')
       /\ down
            => /\ ~registered'
               /\ ~taskActive'
               /\ started' = started
               /\ job'.runCount = job.runCount
               /\ lastCall'.op # "fire"
       /\ (lastCall'.op = "lateFire")
            => /\ UNCHANGED <<registered, job, taskActive, config, inflight,
                              clock, started, completed, failStreak,
                              jobConfig>>
               /\ UNCHANGED loggerVars
      ]_vars

\* C25 witness: shutdown came while an execution was in flight, and a
\* timer callback has run after it: the registry is empty, the timer is
\* stopped and the one execution begun is still the only one.
C25_Witness ==
    /\ lastCall.op = "lateFire"
    /\ down
    /\ ~registered
    /\ ~taskActive
    /\ started = 1
    /\ JobCallsInFlight = 1

\* C27: in every reachable state the timer of a registered job is started
\* if and only if the enabled flag of its status is true.
C27_TimerIffEnabled == registered => (taskActive <=> job.enabled)

\* logHealthCheck calls that await their fs.appendFile
LogCallsInFlight ==
    BagCardinality([c \in {x \in BagToSet(inflight) : x.pc = "log"}
                       |-> inflight[c]])

\* C26: writes to the active log file are serialized: at any time at most
\* one logHealthCheck call is between the start of its append and the end
\* of its rotation check, also when a manual trigger runs together with a
\* scheduled execution.
C26_WritesSerialized == LogCallsInFlight <= 1

\* C28: a stopped job advertises no next run: in every reachable state in
\* which enabled is false nextRun is unset, also when stopJob was called
\* during an execution that completed afterwards.
C28_StoppedHasNoNextRun == ~job.enabled => job.nextRun = NoTime

\* C29: under every configuration that initialization and updateConfig
\* calls can install, a performHealthCheckWithRetry call that has returned
\* made at least one probe and returned a result, never null.
C29_AtLeastOneAttempt ==
    (CallTurn(lastCall) /\ lastCall.ret.result # Pending)
        => /\ lastCall.ret.probes >= 1
           /\ lastCall.ret.result # NullResult

\* C30: the recovery sweep never re-enables a job that an operator
\* stopped: while the enabled flag of a registered job is false and its
\* timer is stopped, which only stopJob and a creation with enabled false
\* bring about and only startJob and restartJob end, neither a recovery
\* sweep nor the end of an execution in flight sets the flag or starts the
\* timer.
C30_SweepKeepsStopped ==
    [][(/\ registered
        /\ ~job.enabled
        /\ ~taskActive
        /\ (lastCall'.op = "performHealthCheck" \/ JobBodyEnded(lastCall')))
          => (~job'.enabled /\ ~taskActive')
      ]_vars

\* a sweep has just passed over a job that had ended an execution in error
\* and was stopped afterwards, and left it stopped
C30_Witness ==
    /\ lastCall.op = "performHealthCheck"
    /\ registered
    /\ ~job.enabled
    /\ ~taskActive
    /\ job.errorCount >= 1

\* an execution that was in flight when the job was stopped has just
\* ended and left the job stopped
C30_WitnessCompletion ==
    /\ JobBodyEnded(lastCall)
    /\ registered
    /\ ~job.enabled
    /\ ~taskActive

====
